---- MODULE Spec2Model ----
(***************************************************************************)
(* Model of the RFQ text pipeline: AIExtractor._parse_extraction_response  *)
(* (src/ai_extractor.py) feeding ContentRedactor.redact_content            *)
(* (src/redactor.py), as wired together by process_document (src/app.py).  *)
(* Python strings are sequences of one-character strings.                  *)
(***************************************************************************)
EXTENDS Integers, Sequences, FiniteSets, TLC

\* ------------------------------------------------------------------------
\* Characters and the character classes used by the patterns
\* ------------------------------------------------------------------------
LowerCase == {"a","b","c","d","e","f","g","h","i","j","k","l","m","n","o","p","q","r","s","t","u","v","w","x","y","z"}
UpperCase == {"A","B","C","D","E","F","G","H","I","J","K","L","M","N","O","P","Q","R","S","T","U","V","W","X","Y","Z"}
Digit == {"0","1","2","3","4","5","6","7","8","9"}
WhiteSpace == {" ", "\n"}
Punct == {".", ",", ":", ";", "-", "_", "%", "+", "@", "/", "[", "]", "{", "}", "\"", "|", "!"}
AllChars == LowerCase \cup UpperCase \cup Digit \cup WhiteSpace \cup Punct

LowerSeq == <<"a", "b", "c", "d", "e", "f", "g", "h", "i", "j", "k", "l", "m", "n", "o", "p", "q", "r", "s", "t", "u", "v", "w", "x", "y", "z">>
UpperSeq == <<"A", "B", "C", "D", "E", "F", "G", "H", "I", "J", "K", "L", "M", "N", "O", "P", "Q", "R", "S", "T", "U", "V", "W", "X", "Y", "Z">>

\* str.lower() and the case swap, as tables over the characters
LowerTable ==
    [ch \in AllChars |->
        IF ch \in UpperCase THEN LowerSeq[CHOOSE i \in 1..26 : UpperSeq[i] = ch] ELSE ch]
SwapTable ==
    [ch \in AllChars |->
        IF ch \in UpperCase THEN LowerSeq[CHOOSE i \in 1..26 : UpperSeq[i] = ch]
        ELSE IF ch \in LowerCase THEN UpperSeq[CHOOSE i \in 1..26 : LowerSeq[i] = ch]
        ELSE ch]

ToLower(ch) == LowerTable[ch]
\* the other-case form of a character (re.IGNORECASE folds both ways)
SwapCase(ch) == SwapTable[ch]

\* \w
WordChars == LowerCase \cup UpperCase \cup Digit \cup {"_"}
\* [A-Za-z\s]
AlphaSpace == LowerCase \cup UpperCase \cup WhiteSpace
\* [^\s]
NonSpace == AllChars \ WhiteSpace

\* The(S) is the element of the one-element set S.  Operator arguments and
\* LET definitions are evaluated wherever they are used; a value bound as
\* x \in {e} is evaluated once, so The({body : x \in {e}}) is body with x
\* standing for the value of e.
The(S) == CHOOSE r \in S : TRUE

\* ------------------------------------------------------------------------
\* Regular expressions: a pattern is a sequence of items, matched the way
\* Python's backtracking engine matches them (greedy quantifiers, ordered
\* alternation, leftmost match), always under re.IGNORECASE.
\* ------------------------------------------------------------------------
Unbounded == -1
WB       == [t |-> "b",   s |-> <<>>, c |-> {}, lo |-> 0, hi |-> 0, alts |-> <<>>]
GOpen    == [t |-> "(",   s |-> <<>>, c |-> {}, lo |-> 0, hi |-> 0, alts |-> <<>>]
GClose   == [t |-> ")",   s |-> <<>>, c |-> {}, lo |-> 0, hi |-> 0, alts |-> <<>>]
Lit(str) == [t |-> "lit", s |-> str,  c |-> {}, lo |-> 0, hi |-> 0, alts |-> <<>>]
Cls(set, lo, hi) == [t |-> "cls", s |-> <<>>, c |-> set, lo |-> lo, hi |-> hi, alts |-> <<>>]
Alt(alts) == [t |-> "alt", s |-> <<>>, c |-> {}, lo |-> 0, hi |-> 0, alts |-> alts]

NoMatch == [ok |-> FALSE, start |-> 0, end |-> 0, gs |-> -1, ge |-> -1]

\* \b at offset p of text (offsets count characters already passed)
AtBoundary(text, p) ==
    LET before == p > 0 /\ text[p] \in WordChars
        after  == p < Len(text) /\ text[p + 1] \in WordChars
    IN  before # after

InClass(ch, set) == ch \in set \/ SwapCase(ch) \in set

LitAt(text, p, str) ==
    /\ p + Len(str) <= Len(text)
    /\ \A i \in 1..Len(str) : ToLower(text[p + i]) = ToLower(str[i])

\* number of characters a greedy quantified class takes at offset p
RunLen(text, p, it) ==
    LET room == Len(text) - p
        lim  == IF it.hi = Unbounded \/ it.hi > room THEN room ELSE it.hi
    IN  CHOOSE n \in 0..lim :
            /\ n = lim \/ ~InClass(text[p + n + 1], it.c)
            /\ \A i \in 1..n : InClass(text[p + i], it.c)

\* of the attempts T (each the result r of trying choice n), the successful
\* one the engine reaches first: the longest repetition of a greedy
\* quantifier, the earliest alternative or start offset otherwise
Longest(T) ==
    IF \A t \in T : ~t.r.ok THEN NoMatch
    ELSE (CHOOSE t \in T : t.r.ok /\ \A u \in T : u.r.ok => u.n <= t.n).r
Earliest(T) ==
    IF \A t \in T : ~t.r.ok THEN NoMatch
    ELSE (CHOOSE t \in T : t.r.ok /\ \A u \in T : u.r.ok => u.n >= t.n).r

RECURSIVE MatchFrom(_, _, _, _, _, _, _)

\* match items k.. of a pattern at offset p; s0 is where the match began
MatchFrom(items, k, text, s0, p, gs, ge) ==
    IF k > Len(items)
    THEN [ok |-> TRUE, start |-> s0, end |-> p, gs |-> gs, ge |-> ge]
    ELSE LET it == items[k] IN
         CASE it.t = "b" ->
                IF AtBoundary(text, p)
                THEN MatchFrom(items, k + 1, text, s0, p, gs, ge)
                ELSE NoMatch
           [] it.t = "(" -> MatchFrom(items, k + 1, text, s0, p, p, ge)
           [] it.t = ")" -> MatchFrom(items, k + 1, text, s0, p, gs, p)
           [] it.t = "lit" ->
                IF LitAt(text, p, it.s)
                THEN MatchFrom(items, k + 1, text, s0, p + Len(it.s), gs, ge)
                ELSE NoMatch
           [] it.t = "cls" ->
                \* greedy: the longest repetition that lets the rest match
                The({ Longest(T) :
                     T \in {{[n |-> n, r |-> MatchFrom(items, k + 1, text, s0, p + n, gs, ge)] :
                              n \in it.lo..RunLen(text, p, it)}}})
           [] it.t = "alt" ->
                \* ordered alternation: the first alternative that lets the rest match
                The({Earliest(T) :
                     T \in {{[n |-> a,
                              r |-> IF LitAt(text, p, it.alts[a])
                                    THEN MatchFrom(items, k + 1, text, s0,
                                                   p + Len(it.alts[a]), gs, ge)
                                    ELSE NoMatch] : a \in 1..Len(it.alts)}}})

\* re.search from offset pos: the leftmost offset at which the pattern matches
Search(items, text, pos) ==
    The({Earliest(T) :
         T \in {{[n |-> s, r |-> MatchFrom(items, 1, text, s, s, -1, -1)] : s \in pos..Len(text)}}})

RECURSIVE FindIter(_, _, _)
\* the non-overlapping matches of a pattern, left to right; every pattern of
\* the table consumes at least one character, so the scan always advances
FindIter(items, text, pos) ==
    The({IF ~m.ok THEN <<>> ELSE <<m>> \o FindIter(items, text, m.end) :
         m \in {Search(items, text, pos)}})

Slice(text, a, b) == SubSeq(text, a + 1, b)

\* re.findall: group 1 of each match when the pattern has a group, else the match
re_findall(items, text) ==
    The({[i \in 1..Len(ms) |->
                        IF ms[i].gs >= 0 THEN Slice(text, ms[i].gs, ms[i].ge)
                                         ELSE Slice(text, ms[i].start, ms[i].end)] :
         ms \in {FindIter(items, text, 0)}})

RECURSIVE SubFrom(_, _, _, _, _)
SubFrom(ms, i, repl, text, pos) ==
    IF i > Len(ms) THEN Slice(text, pos, Len(text))
    ELSE Slice(text, pos, ms[i].start) \o repl \o SubFrom(ms, i + 1, repl, text, ms[i].end)

\* a re.sub that replaces the first match only (count=1)
re_sub_first(items, repl, text) ==
    The({SubFrom(IF ms = <<>> THEN ms ELSE <<ms[1]>>, 1, repl, text, 0) :
         ms \in {FindIter(items, text, 0)}})

\* re.sub: every match replaced by repl
re_sub(items, repl, text) ==
    The({SubFrom(ms, 1, repl, text, 0) :
         ms \in {FindIter(items, text, 0)}})

\* ------------------------------------------------------------------------
\* ContentRedactor._init_redaction_patterns
\* ------------------------------------------------------------------------
government_agencies == <<
    <<WB, GOpen, Alt(<<<<"V", "A">>, <<"G", "S", "A">>, <<"D", "O", "D">>, <<"D", "H", "S">>, <<"U", "S", "A", "C", "E">>, <<"N", "A", "V", "Y">>, <<"A", "R", "M", "Y">>, <<"A", "I", "R", " ", "F", "O", "R", "C", "E">>, <<"M", "A", "R", "I", "N", "E", "S">>>>), GClose, WB>>,
    <<WB, GOpen, Lit(<<"D", "e", "p", "a", "r", "t", "m", "e", "n", "t", " ", "o", "f", " ">>), Cls(AlphaSpace, 1, Unbounded), GClose, WB>>,
    <<WB, GOpen, Lit(<<"U", ".", "S", ".", " ">>), Cls(AlphaSpace, 1, Unbounded), Lit(<<" ", "A", "d", "m", "i", "n", "i", "s", "t", "r", "a", "t", "i", "o", "n">>), GClose, WB>>,
    <<WB, GOpen, Cls(UpperCase, 2, 5), Lit(<<" ", "C", "o", "m", "m", "a", "n", "d">>), GClose, WB>> >>

contact_info == <<
    <<WB, Cls(LowerCase \cup UpperCase \cup Digit \cup {".", "_", "%", "+", "-"}, 1, Unbounded), Lit(<<"@">>),
      Cls(LowerCase \cup UpperCase \cup Digit \cup {".", "-"}, 1, Unbounded), Lit(<<".">>),
      Cls(UpperCase \cup {"|"} \cup LowerCase, 2, Unbounded), WB>>,
    <<WB, Cls(Digit, 3, 3), Cls({"-", "."}, 0, 1), Cls(Digit, 3, 3), Cls({"-", "."}, 0, 1), Cls(Digit, 4, 4), WB>>,
    <<WB, Lit(<<"h", "t", "t", "p">>), Cls({"s"}, 0, 1), Lit(<<":", "/", "/">>), Cls(NonSpace, 1, Unbounded), WB>>,
    <<WB, Lit(<<"w", "w", "w", ".">>), Cls(NonSpace, 1, Unbounded), WB>> >>

Labelled(label, set) ==
    <<WB, Lit(label), Cls(WhiteSpace, 0, Unbounded), Cls({":"}, 0, 1), Cls(WhiteSpace, 0, Unbounded),
      Cls(set, 1, Unbounded), WB>>

federal_codes == <<
    Labelled(<<"D", "U", "N", "S">>, Digit),
    Labelled(<<"U", "E", "I">>, UpperCase \cup Digit),
    Labelled(<<"S", "A", "M">>, UpperCase \cup Digit),
    Labelled(<<"C", "A", "G", "E">>, UpperCase \cup Digit),
    Labelled(<<"S", "o", "l", "i", "c", "i", "t", "a", "t", "i", "o", "n">>, UpperCase \cup Digit \cup {"-"}),
    Labelled(<<"C", "o", "n", "t", "r", "a", "c", "t">>, UpperCase \cup Digit \cup {"-"}) >>

specific_locations == <<
    <<WB, Cls(Digit, 1, Unbounded), Cls(WhiteSpace, 1, Unbounded), Cls(AlphaSpace, 1, Unbounded), GOpen,
      Alt(<<<<"S", "t", "r", "e", "e", "t">>, <<"S", "t">>, <<"A", "v", "e", "n", "u", "e">>, <<"A", "v", "e">>, <<"R", "o", "a", "d">>, <<"R", "d">>, <<"D", "r", "i", "v", "e">>, <<"D", "r">>, <<"B", "o", "u", "l", "e", "v", "a", "r", "d">>, <<"B", "l", "v", "d">>>>), GClose, WB>>,
    <<WB, Cls(AlphaSpace, 1, Unbounded), Cls(WhiteSpace, 1, Unbounded), Lit(<<"B", "u", "i", "l", "d", "i", "n", "g">>),
      Cls(WhiteSpace, 1, Unbounded), Cls(Digit, 1, Unbounded), WB>>,
    <<WB, Cls(AlphaSpace, 1, Unbounded), Cls(WhiteSpace, 1, Unbounded), GOpen,
      Alt(<<<<"B", "a", "s", "e">>, <<"A", "F", "B">>, <<"N", "a", "v", "a", "l">>, <<"F", "o", "r", "t">>>>), GClose, WB>> >>

\* the table in definition order (dict insertion order)
redaction_patterns == <<
    [category |-> <<"g", "o", "v", "e", "r", "n", "m", "e", "n", "t", "_", "a", "g", "e", "n", "c", "i", "e", "s">>, patterns |-> government_agencies],
    [category |-> <<"c", "o", "n", "t", "a", "c", "t", "_", "i", "n", "f", "o">>,        patterns |-> contact_info],
    [category |-> <<"f", "e", "d", "e", "r", "a", "l", "_", "c", "o", "d", "e", "s">>,       patterns |-> federal_codes],
    [category |-> <<"s", "p", "e", "c", "i", "f", "i", "c", "_", "l", "o", "c", "a", "t", "i", "o", "n", "s">>,  patterns |-> specific_locations] >>

REDACTED == <<"[", "R", "E", "D", "A", "C", "T", "E", "D", "]">>

\* ------------------------------------------------------------------------
\* ContentRedactor._redact_text
\* ------------------------------------------------------------------------
\* f"Removed {category}: {match}"
RemovedLine(category, match) == <<"R", "e", "m", "o", "v", "e", "d", " ">> \o category \o <<":", " ">> \o match

\* what the loop body appends for the matches of pattern pi of category ci:
\* the summary lines, and for each the pattern that produced it and the span
\* of redacted_text that re.sub replaced (occ is bookkeeping for the
\* properties, the program keeps only the lines)
NewLines(category, matches) ==
    [i \in 1..Len(matches) |-> RemovedLine(category, matches[i])]
NewOcc(text, ci, pi, matches, found) ==
    The({ [i \in 1..Len(matches) |->
              [ci |-> ci, pi |-> pi, pos |-> spans[i].start,
               category |-> redaction_patterns[ci].category, match |-> matches[i],
               replaced |-> Slice(text, spans[i].start, spans[i].end)]]
          : spans \in {found} })

\* a loop body that puts the new lines in front of the list
ApplyPatternPrepend(st, ci, pi) ==
    LET cat     == redaction_patterns[ci]
        pattern == cat.patterns[pi]
        text    == st.redacted_text
    IN  The({ IF matches # <<>>
              THEN [redacted_text |-> re_sub(pattern, REDACTED, text),
                    redactions |-> NewLines(cat.category, matches) \o st.redactions,
                    occ |-> NewOcc(text, ci, pi, matches, FindIter(pattern, text, 0)) \o st.occ]
              ELSE st
              : matches \in {re_findall(pattern, text)} })

\* the inner loop body for pattern pi of category ci; st holds redacted_text
\* and redactions
ApplyPattern(st, ci, pi) ==
    LET cat     == redaction_patterns[ci]
        pattern == cat.patterns[pi]
        text    == st.redacted_text
    IN  The({ IF matches # <<>>
              THEN [redacted_text |-> re_sub(pattern, REDACTED, text),
                    redactions |-> st.redactions \o NewLines(cat.category, matches),
                    occ |-> st.occ \o NewOcc(text, ci, pi, matches, FindIter(pattern, text, 0))]
              ELSE st
              : matches \in {re_findall(pattern, text)} })

RECURSIVE PatternLoop(_, _, _)
\* for category, patterns in ...items(): for pattern in patterns: ...
PatternLoop(st, ci, pi) ==
    IF ci > Len(redaction_patterns) THEN st
    ELSE IF pi > Len(redaction_patterns[ci].patterns) THEN PatternLoop(st, ci + 1, 1)
    ELSE The({ PatternLoop(next, ci, pi + 1) : next \in {ApplyPattern(st, ci, pi)} })

_redact_text(text) ==
    The({ PatternLoop([redacted_text |-> t, redactions |-> <<>>, occ |-> <<>>], 1, 1)
          : t \in {text} })

\* ------------------------------------------------------------------------
\* Python values and dicts.  A value is tagged with its type; a dict is the
\* sequence of its items in insertion order.
\* ------------------------------------------------------------------------
Str(chars)  == [type |-> "str",  v |-> chars]
Num(chars)  == [type |-> "num",  v |-> chars]     \* a number, by its literal
List(items) == [type |-> "list", v |-> items]
Dict(items) == [type |-> "dict", v |-> items]
PyTrue      == [type |-> "bool", v |-> <<"T", "r", "u", "e">>]
PyFalse     == [type |-> "bool", v |-> <<"F", "a", "l", "s", "e">>]
PyNone      == [type |-> "none", v |-> <<>>]

\* isinstance(x, str)
IsStr(x) == x.type = "str"

Keys(d) == [i \in 1..Len(d) |-> d[i].k]
HasKey(d, k) == \E i \in 1..Len(d) : d[i].k = k
Get(d, k) == d[CHOOSE i \in 1..Len(d) : d[i].k = k].val

\* d[k] = val: an existing key keeps its place, a new key goes last
SetItem(d, k, val) ==
    IF HasKey(d, k)
    THEN [i \in 1..Len(d) |-> IF d[i].k = k THEN [k |-> k, val |-> val] ELSE d[i]]
    ELSE Append(d, [k |-> k, val |-> val])

\* ------------------------------------------------------------------------
\* json.loads, for documents over AllChars (no backslash escapes): objects,
\* arrays, strings, numbers, true / false / null
\* ------------------------------------------------------------------------
BadJson == [ok |-> FALSE, val |-> PyNone, end |-> 0]
Good(val, end) == [ok |-> TRUE, val |-> val, end |-> end]

JsonSpace == {" ", "\n"}

\* offset of the first non-whitespace character at or after p
SkipWs(text, p) ==
    CHOOSE q \in p..Len(text) :
        /\ q = Len(text) \/ text[q + 1] \notin JsonSpace
        /\ \A i \in p + 1..q : text[i] \in JsonSpace

CharAt(text, p) == IF p < Len(text) THEN text[p + 1] ELSE ""

StartsWith(text, p, str) ==
    p + Len(str) <= Len(text) /\ Slice(text, p, p + Len(str)) = str

\* number of digits at offset p
DigitRun(text, p) ==
    CHOOSE n \in 0..Len(text) - p :
        /\ n = Len(text) - p \/ text[p + n + 1] \notin Digit
        /\ \A i \in 1..n : text[p + i] \in Digit

\* offset of the first double quote after the one at p, or -1
NextQuote(text, p) ==
    IF \A q \in p + 1..Len(text) - 1 : text[q + 1] # "\"" THEN -1
    ELSE CHOOSE q \in p + 1..Len(text) - 1 :
            /\ text[q + 1] = "\""
            /\ \A i \in p + 1..q - 1 : text[i + 1] # "\""

\* a string starting at its opening quote: up to the next quote; a raw
\* newline inside it is an invalid control character
ParseString(text, p) ==
    IF CharAt(text, p) # "\"" THEN BadJson
    ELSE The({ IF q < 0 \/ \E i \in p + 2..q : text[i] = "\n" THEN BadJson
               ELSE Good(Str(Slice(text, p + 1, q)), q + 1)
               : q \in {NextQuote(text, p)} })

\* -?(0|[1-9]\d*)(\.\d+)?([eE][-+]?\d+)?
ParseNumber(text, p) ==
    LET p1   == IF CharAt(text, p) = "-" THEN p + 1 ELSE p
        ni   == IF CharAt(text, p1) = "0" THEN 1 ELSE DigitRun(text, p1)
        p2   == p1 + ni
        nf   == IF CharAt(text, p2) = "." THEN DigitRun(text, p2 + 1) ELSE 0
        p3   == IF nf > 0 THEN p2 + 1 + nf ELSE p2
        sg   == IF CharAt(text, p3 + 1) \in {"-", "+"} THEN 1 ELSE 0
        ne   == IF CharAt(text, p3) \in {"e", "E"} THEN DigitRun(text, p3 + 1 + sg) ELSE 0
        p4   == IF ne > 0 THEN p3 + 1 + sg + ne ELSE p3
    IN  IF ni = 0 THEN BadJson ELSE Good(Num(Slice(text, p, p4)), p4)

RECURSIVE ParseValue(_, _)
RECURSIVE ParseMembers(_, _, _)
RECURSIVE ParseItems(_, _, _)
RECURSIVE MemberTail(_, _, _, _)

\* one JSON value starting exactly at offset p
ParseValue(text, p) ==
    LET ch == CharAt(text, p) IN
    CASE ch = "\"" -> ParseString(text, p)
      [] ch = "{" ->
            LET q == SkipWs(text, p + 1) IN
            IF CharAt(text, q) = "}" THEN Good(Dict(<<>>), q + 1)
            ELSE ParseMembers(text, q, <<>>)
      [] ch = "[" ->
            LET q == SkipWs(text, p + 1) IN
            IF CharAt(text, q) = "]" THEN Good(List(<<>>), q + 1)
            ELSE ParseItems(text, q, <<>>)
      [] ch \in Digit \cup {"-"} -> ParseNumber(text, p)
      [] StartsWith(text, p, <<"t", "r", "u", "e">>) -> Good(PyTrue, p + 4)
      [] StartsWith(text, p, <<"f", "a", "l", "s", "e">>) -> Good(PyFalse, p + 5)
      [] StartsWith(text, p, <<"n", "u", "l", "l">>) -> Good(PyNone, p + 4)
      [] OTHER -> BadJson

\* after a member key: val (the colon, then the member's value, or BadJson),
\* then "}" or "," and the rest of the members
MemberTail(text, key, val, acc) ==
    IF ~val.ok THEN BadJson
    ELSE The({ CASE CharAt(text, n) = "}" -> Good(Dict(d), n + 1)
                 [] CharAt(text, n) = "," -> ParseMembers(text, SkipWs(text, n + 1), d)
                 [] OTHER -> BadJson
               : n \in {SkipWs(text, val.end)}, d \in {SetItem(acc, key, val.val)} })

\* the members of an object, p at the quote of the next key; a repeated key
\* keeps its first position and takes the last value
ParseMembers(text, p, acc) ==
    The({ IF ~key.ok THEN BadJson
          ELSE The({ MemberTail(text, key.val.v, val, acc)
                     : val \in { The({ IF CharAt(text, c) # ":" THEN BadJson
                                       ELSE ParseValue(text, SkipWs(text, c + 1))
                                       : c \in {SkipWs(text, key.end)} }) } })
          : key \in {ParseString(text, p)} })

\* the items of an array, p at the start of the next item
ParseItems(text, p, acc) ==
    The({ IF ~val.ok THEN BadJson
          ELSE The({ CASE CharAt(text, n) = "]" -> Good(List(items), n + 1)
                       [] CharAt(text, n) = "," -> ParseItems(text, SkipWs(text, n + 1), items)
                       [] OTHER -> BadJson
                     : n \in {SkipWs(text, val.end)}, items \in {Append(acc, val.val)} })
          : val \in {ParseValue(text, p)} })

\* json.loads(s): leading whitespace, one value, trailing whitespace only;
\* a failure is json.JSONDecodeError
json_loads(s) ==
    The({ The({ IF r.ok /\ SkipWs(text, r.end) = Len(text) THEN r ELSE BadJson
                : r \in {ParseValue(text, SkipWs(text, 0))} })
          : text \in {s} })

\* ------------------------------------------------------------------------
\* AIExtractor._parse_extraction_response / _manual_parse_response
\* ------------------------------------------------------------------------
NotSpecified == <<"N", "o", "t", " ", "s", "p", "e", "c", "i", "f", "i", "e", "d">>
FormattingFailed == <<"A", "I", " ", "e", "x", "t", "r", "a", "c", "t", "i", "o", "n", " ", "c", "o", "m", "p", "l", "e", "t", "e", "d", " ", "b", "u", "t", " ", "f", "o", "r", "m", "a", "t", "t", "i", "n", "g", " ", "f", "a", "i", "l", "e", "d">>
Ellipsis == <<".", ".", ".">>
ScopeLimit == 500

K_project_overview        == <<"p", "r", "o", "j", "e", "c", "t", "_", "o", "v", "e", "r", "v", "i", "e", "w">>
K_scope_of_work           == <<"s", "c", "o", "p", "e", "_", "o", "f", "_", "w", "o", "r", "k">>
K_deliverables            == <<"d", "e", "l", "i", "v", "e", "r", "a", "b", "l", "e", "s">>
K_timeline                == <<"t", "i", "m", "e", "l", "i", "n", "e">>
K_location                == <<"l", "o", "c", "a", "t", "i", "o", "n">>
K_submission_requirements == <<"s", "u", "b", "m", "i", "s", "s", "i", "o", "n", "_", "r", "e", "q", "u", "i", "r", "e", "m", "e", "n", "t", "s">>
K_technical_requirements  == <<"t", "e", "c", "h", "n", "i", "c", "a", "l", "_", "r", "e", "q", "u", "i", "r", "e", "m", "e", "n", "t", "s">>
K_qualifications          == <<"q", "u", "a", "l", "i", "f", "i", "c", "a", "t", "i", "o", "n", "s">>
K_evaluation_criteria     == <<"e", "v", "a", "l", "u", "a", "t", "i", "o", "n", "_", "c", "r", "i", "t", "e", "r", "i", "a">>
K_extracted_sections      == <<"e", "x", "t", "r", "a", "c", "t", "e", "d", "_", "s", "e", "c", "t", "i", "o", "n", "s">>
K_confidence_score        == <<"c", "o", "n", "f", "i", "d", "e", "n", "c", "e", "_", "s", "c", "o", "r", "e">>

Item(k, val) == [k |-> k, val |-> val]

\* response_text[:500]
Prefix(text, n) == SubSeq(text, 1, IF Len(text) < n THEN Len(text) ELSE n)

\* a fallback that keeps the whole reply
_manual_parse_untruncated(response_text) == <<
    Item(K_project_overview, Str(FormattingFailed)),
    Item(K_scope_of_work, Str(response_text \o Ellipsis)),
    Item(K_deliverables, Str(NotSpecified)),
    Item(K_timeline, Str(NotSpecified)),
    Item(K_location, Str(NotSpecified)),
    Item(K_submission_requirements, Str(NotSpecified)),
    Item(K_technical_requirements, Str(NotSpecified)),
    Item(K_qualifications, Str(NotSpecified)),
    Item(K_evaluation_criteria, Str(NotSpecified)),
    Item(K_extracted_sections, List(<<Str(<<"r", "a", "w", "_", "c", "o", "n", "t", "e", "n", "t">>)>>)),
    Item(K_confidence_score, Num(<<"0", ".", "5">>)) >>

_manual_parse_response(response_text) == <<
    Item(K_project_overview, Str(FormattingFailed)),
    Item(K_scope_of_work, Str(Prefix(response_text, ScopeLimit) \o Ellipsis)),
    Item(K_deliverables, Str(NotSpecified)),
    Item(K_timeline, Str(NotSpecified)),
    Item(K_location, Str(NotSpecified)),
    Item(K_submission_requirements, Str(NotSpecified)),
    Item(K_technical_requirements, Str(NotSpecified)),
    Item(K_qualifications, Str(NotSpecified)),
    Item(K_evaluation_criteria, Str(NotSpecified)),
    Item(K_extracted_sections, List(<<Str(<<"r", "a", "w", "_", "c", "o", "n", "t", "e", "n", "t">>)>>)),
    Item(K_confidence_score, Num(<<"0", ".", "5">>)) >>

\* r'\{.*\}' with re.DOTALL: the first "{" through the last "}"
JsonSpan == <<Lit(<<"{">>), Cls(AllChars, 0, Unbounded), Lit(<<"}">>)>>

\* which way the parser goes: "json" (decoded object returned as is) or
\* "fallback" (no brace span, or the span does not decode)
ParsePath(response_text) ==
    The({ IF json_match.ok
             /\ json_loads(Slice(response_text, json_match.start, json_match.end)).ok
          THEN "json" ELSE "fallback"
          : json_match \in {Search(JsonSpan, response_text, 0)} })

_parse_extraction_response(response_text) ==
    The({ IF json_match.ok
          THEN The({ IF decoded.ok THEN decoded.val.v
                     ELSE _manual_parse_response(response_text)
                     : decoded \in {json_loads(Slice(response_text, json_match.start,
                                                     json_match.end))} })
          ELSE _manual_parse_response(response_text)
          : json_match \in {Search(JsonSpan, response_text, 0)} })

\* ------------------------------------------------------------------------
\* ContentRedactor.redact_content.  Dicts live in a heap of objects so that
\* the caller's mapping and the working copy are distinct objects.
\* ------------------------------------------------------------------------
K_redaction_applied   == <<"r", "e", "d", "a", "c", "t", "i", "o", "n", "_", "a", "p", "p", "l", "i", "e", "d">>
K_redaction_timestamp == <<"r", "e", "d", "a", "c", "t", "i", "o", "n", "_", "t", "i", "m", "e", "s", "t", "a", "m", "p">>

DigitSeq == <<"0", "1", "2", "3", "4", "5", "6", "7", "8", "9">>
TwoDigits(n) == <<DigitSeq[(n \div 10) + 1], DigitSeq[(n % 10) + 1]>>
\* datetime.isoformat() of the instant t seconds into the modelled minute
isoformat(t) == <<"2", "0", "2", "4", "-", "0", "1", "-", "0", "1", "T", "0", "0", ":", "0", "0", ":">> \o TwoDigits(t)

\* no copy at all: the working dict is the caller's dict
dict_alias(h, ref) == [heap |-> h, ref |-> ref]

\* content.copy(): a new dict object with the same items
dict_copy(h, ref) == [heap |-> Append(h, h[ref]), ref |-> Len(h) + 1]

\* f"{section_key}: {r}"
SummaryLine(section_key, r) == section_key \o <<":", " ">> \o r

\* the loop body for the item at position i of the working copy rc
RedactSection(st, rc, i) ==
    LET section_key     == st.heap[rc][i].k
        section_content == st.heap[rc][i].val
    IN  IF IsStr(section_content)
        THEN The({
             [heap |-> [st.heap EXCEPT ![rc] = SetItem(@, section_key, Str(res.redacted_text))],
              summary |-> st.summary \o
                  [j \in 1..Len(res.redactions) |-> SummaryLine(section_key, res.redactions[j])],
              audit |-> st.audit \o
                  [j \in 1..Len(res.occ) |->
                      [si |-> i, section_key |-> section_key, ci |-> res.occ[j].ci,
                       pi |-> res.occ[j].pi, pos |-> res.occ[j].pos,
                       category |-> res.occ[j].category, match |-> res.occ[j].match,
                       replaced |-> res.occ[j].replaced]]]
             : res \in {_redact_text(section_content.v)} })
        ELSE st

RECURSIVE SectionLoop(_, _, _)
\* for section_key, section_content in redacted_content.items(): ...
SectionLoop(st, rc, i) ==
    IF i > Len(st.heap[rc]) THEN st
    ELSE The({ SectionLoop(next, rc, i + 1) : next \in {RedactSection(st, rc, i)} })

\* the two assignments after the loop
Finish(d, t) ==
    The({ SetItem(d1, K_redaction_timestamp, Str(isoformat(t)))
          : d1 \in {SetItem(d, K_redaction_applied, PyTrue)} })

\* the loop run on the working copy cp, then the two assignments
AfterCopy(cp, t) ==
    The({ [heap |-> [done.heap EXCEPT ![cp.ref] = Finish(@, t)],
           redacted_content |-> cp.ref,
           redaction_summary |-> done.summary,
           audit |-> done.audit]
          : done \in {SectionLoop([heap |-> cp.heap, summary |-> <<>>, audit |-> <<>>],
                                  cp.ref, 1)} })

\* the call redact_content(content) at clock reading t, content being the
\* object ref of heap h: the heap afterwards, the returned dict and summary
redact_content(h, ref, t) ==
    The({ AfterCopy(cp, t) : cp \in {dict_copy(h, ref)} })

\* ------------------------------------------------------------------------
\* Inputs: model replies and caller-built records
\* ------------------------------------------------------------------------
MaxClock == 1
LongLen == 520

Frags == {
    <<"D", "O", "D">>, <<"v", "a">>, <<" ">>, <<"-">>, <<"O", "h", "i", "o">>,
    <<"j", "a", "n", "e", "@", "e", "x", "a", "m", "p", "l", "e", ".", "c", "o", "m">>, <<"5", "5", "5", "-", "1", "2", "3", "-", "4", "5", "6", "7">>, <<"h", "t", "t", "p", "s", ":", "/", "/", "e", "x", "a", "m", "p", "l", "e", ".", "c", "o", "m", "/", "x">>, <<"h", "t", "t", "p", "s", ":", "/", "/", "v", "a", ".", "g", "o", "v", "/", "x">>,
    <<"D", "U", "N", "S", ":", " ", "1", "2", "3", "4", "5", "6", "7", "8", "9">>, <<"D", "U", "N", "S", ":", " ", "1", "2", "3", "4", "5", "6", "7", "8", "9", "0">>, <<"1", "2", "3", " ", "M", "a", "i", "n", " ", "S", "t", "r", "e", "e", "t">>, <<"S", "m", "i", "t", "h", " ", "A", "F", "B">>,
    <<"D", "e", "p", "a", "r", "t", "m", "e", "n", "t", " ", "o", "f", " ", "E", "n", "e", "r", "g", "y">>, <<"A", "B", " ", "C", "o", "m", "m", "a", "n", "d">> }

\* section texts: one fragment, or two joined
Texts == Frags \cup {a \o b : a \in Frags, b \in Frags}

Phrases == {
    <<"W", "r", "i", "g", "h", "t", "-", "P", "a", "t", "t", "e", "r", "s", "o", "n", " ", "A", "F", "B", ",", " ", "O", "h", "i", "o">>, <<"C", "o", "n", "t", "a", "c", "t", ":", " ", "r", "f", "q", "@", "a", "g", "e", "n", "c", "y", ".", "g", "o", "v">>, <<"N", "o", "t", " ", "s", "p", "e", "c", "i", "f", "i", "e", "d">>,
    <<"t", "h", "e", " ", "v", "a", " ", "a", "n", "d", " ", "D", "O", "D">>, <<"U", "E", "I", ":", " ", "A", "B", "C", "1", "2", "3", " ", "a", "t", " ", "w", "w", "w", ".", "e", "x", "a", "m", "p", "l", "e", ".", "c", "o", "m">> }

MetaValues == {List(<<Str(K_location), Str(K_timeline)>>), Num(<<"0", ".", "9", "5">>), Str(<<"D", "O", "D">>), PyNone}

Records ==
    {<<Item(K_location, Str(t))>> : t \in Texts}
    \cup {<<Item(K_location, Str(a)), Item(K_technical_requirements, Str(b))>> :
             a \in Phrases, b \in Phrases}
    \cup {<<Item(K_scope_of_work, Str(<<"P", "a", "v", "i", "n", "g", " ", "f", "o", "r", " ", "D", "O", "D">>)), Item(K_extracted_sections, m1),
            Item(K_confidence_score, m2)>> : m1 \in MetaValues, m2 \in MetaValues}
    \cup {<<Item(K_redaction_applied, m), Item(K_location, Str(<<"S", "m", "i", "t", "h", " ", "A", "F", "B">>))>> :
             m \in {PyFalse, Str(<<"v", "a">>)}}

\* {"<key>": <json>}
Wrap(key, json) == <<"{", "\"">> \o key \o <<"\"", ":", " ">> \o json \o <<"}">>
Quoted(chars) == <<"\"">> \o chars \o <<"\"">>

FullReply ==
    <<"R", "e", "s", "u", "l", "t", ":", "\n", "{", "\"", "p", "r", "o", "j", "e", "c", "t", "_", "o", "v", "e", "r", "v", "i", "e", "w", "\"", ":", " ", "\"", "S", "i", "t", "e", " ", "w", "o", "r", "k", " ", "f", "o", "r", " ", "D", "O", "D", "\"", ",", " ", "\"", "s", "c", "o", "p", "e", "_", "o", "f", "_", "w", "o", "r", "k", "\"", ":", " ", "\"", "P", "a", "v", "i", "n", "g", "\"", ",", " ", "\"", "d", "e", "l", "i", "v", "e", "r", "a", "b", "l", "e", "s", "\"", ":", " ", "\"", "R", "e", "p", "o", "r", "t", "\"", ",", " ", "\"", "t", "i", "m", "e", "l", "i", "n", "e", "\"", ":", " ", "\"", "N", "o", "t", " ", "s", "p", "e", "c", "i", "f", "i", "e", "d", "\"", ",", " ", "\"", "l", "o", "c", "a", "t", "i", "o", "n", "\"", ":", " ", "\"", "S", "m", "i", "t", "h", " ", "A", "F", "B", "\"", ",", " ", "\"", "s", "u", "b", "m", "i", "s", "s", "i", "o", "n", "_", "r", "e", "q", "u", "i", "r", "e", "m", "e", "n", "t", "s", "\"", ":", " ", "\"", "E", "m", "a", "i", "l", " ", "j", "a", "n", "e", "@", "e", "x", "a", "m", "p", "l", "e", ".", "c", "o", "m", "\"", ",", " ", "\"", "t", "e", "c", "h", "n", "i", "c", "a", "l", "_", "r", "e", "q", "u", "i", "r", "e", "m", "e", "n", "t", "s", "\"", ":", " ", "\"", "N", "o", "t", " ", "s", "p", "e", "c", "i", "f", "i", "e", "d", "\"", ",", " ", "\"", "q", "u", "a", "l", "i", "f", "i", "c", "a", "t", "i", "o", "n", "s", "\"", ":", " ", "\"", "N", "o", "t", " ", "s", "p", "e", "c", "i", "f", "i", "e", "d", "\"", ",", " ", "\"", "e", "v", "a", "l", "u", "a", "t", "i", "o", "n", "_", "c", "r", "i", "t", "e", "r", "i", "a", "\"", ":", " ", "\"", "P", "r", "i", "c", "e", "\"", ",", " ", "\"", "e", "x", "t", "r", "a", "c", "t", "e", "d", "_", "s", "e", "c", "t", "i", "o", "n", "s", "\"", ":", " ", "[", "\"", "l", "o", "c", "a", "t", "i", "o", "n", "\"", ",", " ", "\"", "s", "c", "o", "p", "e", "_", "o", "f", "_", "w", "o", "r", "k", "\"", "]", ",", " ", "\"", "c", "o", "n", "f", "i", "d", "e", "n", "c", "e", "_", "s", "c", "o", "r", "e", "\"", ":", " ", "0", ".", "9", "5", "}">>

\* a reply longer than the fallback keeps, naming an agency every 100 characters
LongReply ==
    [i \in 1..LongLen |->
        IF i % 100 = 1 THEN "V" ELSE IF i % 100 = 2 THEN "A" ELSE IF i % 10 = 0 THEN " " ELSE "-"]

Responses ==
    { <<>>, <<"n", "o", " ", "s", "t", "r", "u", "c", "t", "u", "r", "e", " ", "h", "e", "r", "e", ",", " ", "c", "a", "l", "l", " ", "5", "5", "5", "-", "1", "2", "3", "-", "4", "5", "6", "7">>, <<"{", "b", "a", "d">>, <<"}", " ", "{">>, <<"{", "}">>,
      <<"H", "e", "r", "e", ":", " ", "{", "\"", "l", "o", "c", "a", "t", "i", "o", "n", "\"", ":", " ", "\"", "S", "m", "i", "t", "h", " ", "A", "F", "B", "\"", "}", " ", "d", "o", "n", "e">>, <<"{", "\"", "l", "o", "c", "a", "t", "i", "o", "n", "\"", ":", " ", "\"", "O", "h", "i", "o", "\"", "}", " ", "s", "e", "e", " ", "{", "n", "o", "t", "e">>,
      <<"{", "\"", "l", "o", "c", "a", "t", "i", "o", "n", "\"", ":", " ", "\"", "O", "h", "i", "o", "\"", "}", " ", "t", "r", "a", "i", "l", "i", "n", "g", " ", "}">>, <<"{", "\"", "l", "o", "c", "a", "t", "i", "o", "n", "\"", ":", " ", "\"", "O", "h", "i", "o", "\"", ",", "}">>,
      FullReply, LongReply }
    \cup {Wrap(k, Quoted(f)) : k \in {K_extracted_sections, K_confidence_score, K_location},
                               f \in {<<"D", "O", "D">>, <<"5", "5", "5", "-", "1", "2", "3", "-", "4", "5", "6", "7">>, <<"O", "h", "i", "o">>, <<"S", "m", "i", "t", "h", " ", "A", "F", "B">>}}
    \cup {Wrap(k, j) : k \in {K_extracted_sections, K_confidence_score},
                       j \in {<<"[", "\"", "l", "o", "c", "a", "t", "i", "o", "n", "\"", "]">>, <<"0", ".", "9">>, <<"n", "u", "l", "l">>}}

\* ------------------------------------------------------------------------
\* The pipeline of process_document, one request at a time
\* ------------------------------------------------------------------------
\* given is a history variable: the record as it was when redact_content was
\* first handed it; audit and stamp record what the first call did
VARIABLES pc, origin, response_text, given, heap, extracted, redacted, redaction_summary,
          audit, stamp, again, redacted2, summary2, now

vars == <<pc, origin, response_text, given, heap, extracted, redacted, redaction_summary,
          audit, stamp, again, redacted2, summary2, now>>

Init ==
    /\ pc = "start"
    /\ origin = "none"
    /\ response_text = <<>>
    /\ given = <<>>
    /\ heap = <<>>
    /\ extracted = 0
    /\ redacted = 0
    /\ redaction_summary = <<>>
    /\ audit = <<>>
    /\ stamp = 0
    /\ again = "none"
    /\ redacted2 = 0
    /\ summary2 = <<>>
    /\ now = 0

\* extract_rfq_content: the model replies resp and the reply is parsed
Extract(resp) ==
    /\ pc = "start"
    /\ pc' = "extracted"
    /\ origin' = "parser"
    /\ response_text' = resp
    /\ \E extracted_content \in {_parse_extraction_response(resp)} :
        /\ heap' = <<extracted_content>>
        /\ given' = extracted_content
    /\ extracted' = 1
    /\ UNCHANGED <<redacted, redaction_summary, audit, stamp, again, redacted2, summary2, now>>

\* a caller hands redact_content a record it built itself
CallerRecord(rec) ==
    /\ pc = "start"
    /\ pc' = "extracted"
    /\ origin' = "caller"
    /\ heap' = <<rec>>
    /\ given' = rec
    /\ extracted' = 1
    /\ UNCHANGED <<response_text, redacted, redaction_summary, audit, stamp, again,
                   redacted2, summary2, now>>

\* redacted, summary = await redactor.redact_content(extracted)
Redact ==
    /\ pc = "extracted"
    /\ \E r \in {redact_content(heap, extracted, now)} :
        /\ heap' = r.heap
        /\ redacted' = r.redacted_content
        /\ redaction_summary' = r.redaction_summary
        /\ audit' = r.audit
    /\ stamp' = now
    /\ pc' = "redacted"
    /\ UNCHANGED <<origin, response_text, given, extracted, again, redacted2, summary2, now>>

\* a second call on the same input record
RedactSame ==
    /\ pc = "redacted"
    /\ \E r \in {redact_content(heap, extracted, now)} :
        /\ heap' = r.heap
        /\ redacted2' = r.redacted_content
        /\ summary2' = r.redaction_summary
    /\ again' = "same"
    /\ pc' = "done"
    /\ UNCHANGED <<origin, response_text, given, extracted, redacted, redaction_summary, audit, stamp, now>>

\* a second call on the record the first call returned
RedactOutput ==
    /\ pc = "redacted"
    /\ \E r \in {redact_content(heap, redacted, now)} :
        /\ heap' = r.heap
        /\ redacted2' = r.redacted_content
        /\ summary2' = r.redaction_summary
    /\ again' = "output"
    /\ pc' = "done"
    /\ UNCHANGED <<origin, response_text, given, extracted, redacted, redaction_summary, audit, stamp, now>>

\* the UTC clock read by datetime.utcnow() moves on
Tick ==
    /\ now < MaxClock
    /\ now' = now + 1
    /\ UNCHANGED <<pc, origin, response_text, given, heap, extracted, redacted, redaction_summary,
                   audit, stamp, again, redacted2, summary2>>

Next ==
    \/ \E resp \in Responses : Extract(resp)
    \/ \E rec \in Records : CallerRecord(rec)
    \/ Redact
    \/ RedactSame
    \/ RedactOutput
    \/ Tick

Spec == Init /\ [][Next]_vars

TypeOK == pc \in {"start", "extracted", "redacted", "done"}

\* ------------------------------------------------------------------------
\* Properties
\* ------------------------------------------------------------------------
Finished == pc \in {"redacted", "done"}
FirstOut == heap[redacted]
SecondOut == heap[redacted2]

SectionKeys == {K_project_overview, K_scope_of_work, K_deliverables, K_timeline, K_location,
                K_submission_requirements, K_technical_requirements, K_qualifications,
                K_evaluation_criteria}

Contains(text, part) ==
    \E p \in 0..Len(text) - Len(part) : Slice(text, p, p + Len(part)) = part

\* (section index, category index, pattern index, match position), compared
\* lexicographically
Before(a, b) ==
    \/ a.si < b.si
    \/ a.si = b.si /\ a.ci < b.ci
    \/ a.si = b.si /\ a.ci = b.ci /\ a.pi < b.pi
    \/ a.si = b.si /\ a.ci = b.ci /\ a.pi = b.pi /\ a.pos < b.pos

\* C1: the summary lists its entries in (section order of the input mapping,
\* category order of the table, pattern order within the category, left to
\* right match position) order: entry i of the summary is the line for the
\* i-th recorded match, and an entry with a smaller tuple comes earlier.
C1_SummaryOrdered ==
    Finished =>
        /\ Len(redaction_summary) = Len(audit)
        /\ \A i \in 1..Len(audit) :
            /\ audit[i].section_key = given[audit[i].si].k
            /\ audit[i].category = redaction_patterns[audit[i].ci].category
            /\ redaction_summary[i] =
                   SummaryLine(audit[i].section_key, RemovedLine(audit[i].category, audit[i].match))
        /\ \A i \in 1..Len(audit) : \A j \in 1..Len(audit) :
               Before(audit[i], audit[j]) => i < j

C1_Witness ==
    /\ pc = "redacted"
    /\ \E i, j \in 1..Len(audit) : audit[i].si < audit[j].si
    /\ \E i, j \in 1..Len(audit) :
           audit[i].si = audit[j].si /\ audit[i].ci < audit[j].ci
    /\ \E i, j \in 1..Len(audit) :
           /\ audit[i].si = audit[j].si /\ audit[i].ci = audit[j].ci
           /\ audit[i].pi = audit[j].pi /\ audit[i].pos < audit[j].pos

\* C2: every audit entry carries the whole substring that [REDACTED] replaced
\* (never a part of it, never text containing the placeholder), one entry per
\* replaced occurrence, tagged with the section key and the category.
C2_WholeMatchAudited ==
    Finished =>
        /\ Len(redaction_summary) = Len(audit)
        /\ \A i \in 1..Len(audit) :
            /\ audit[i].match = audit[i].replaced
            /\ ~Contains(audit[i].match, REDACTED)
            /\ redaction_summary[i] =
                   SummaryLine(audit[i].section_key, RemovedLine(audit[i].category, audit[i].match))

\* C3: redacting the record a call returned adds no audit entry and leaves
\* every string-valued section as it was (redaction_timestamp, which each
\* call stamps anew, is the engine's field and not a section).
C3_Idempotent ==
    again = "output" =>
        /\ summary2 = <<>>
        /\ \A i \in 1..Len(FirstOut) :
               (IsStr(FirstOut[i].val) /\ FirstOut[i].k # K_redaction_timestamp) =>
                   /\ HasKey(SecondOut, FirstOut[i].k)
                   /\ Get(SecondOut, FirstOut[i].k) = FirstOut[i].val

C3_Witness ==
    /\ again = "output"
    /\ Len(redaction_summary) >= 2
    /\ \E i \in 1..Len(audit) : Contains(audit[i].match, REDACTED)

\* C4 as claimed: two calls on identical input return records equal in every
\* field, the engine's metadata included, and equal summaries.
C4_ByteIdentical ==
    again = "same" =>
        /\ SecondOut = FirstOut
        /\ summary2 = redaction_summary

\* C4 as amended: two calls on identical input return equal summaries and
\* records with the same keys in the same order and equal values in every
\* field other than redaction_timestamp.
C4_SameButTimestamp ==
    again = "same" =>
        /\ summary2 = redaction_summary
        /\ Keys(SecondOut) = Keys(FirstOut)
        /\ \A i \in 1..Len(FirstOut) :
               FirstOut[i].k # K_redaction_timestamp => SecondOut[i] = FirstOut[i]

C4_Witness ==
    /\ again = "same"
    /\ Len(redaction_summary) >= 1
    /\ Get(SecondOut, K_redaction_timestamp) # Get(FirstOut, K_redaction_timestamp)

\* C5: whatever the reply, the parsed record has each of the nine section
\* keys with a string value, and extracted_sections and confidence_score.
C5_ValidRecord ==
    origin = "parser" =>
        /\ \A k \in SectionKeys : HasKey(given, k) /\ IsStr(Get(given, k))
        /\ HasKey(given, K_extracted_sections)
        /\ HasKey(given, K_confidence_score)

FallbackTaken == origin = "parser" /\ ParsePath(response_text) = "fallback"

FallbackCommon ==
    /\ Keys(given) = <<K_project_overview, K_scope_of_work, K_deliverables, K_timeline,
                       K_location, K_submission_requirements, K_technical_requirements,
                       K_qualifications, K_evaluation_criteria, K_extracted_sections,
                       K_confidence_score>>
    /\ Get(given, K_scope_of_work) = Str(Prefix(response_text, ScopeLimit) \o Ellipsis)
    /\ \A k \in SectionKeys \ {K_project_overview, K_scope_of_work} :
           Get(given, k) = Str(NotSpecified)
    /\ Get(given, K_extracted_sections) = List(<<Str(<<"r", "a", "w", "_", "c", "o", "n", "t", "e", "n", "t">>)>>)
    /\ Get(given, K_confidence_score) = Num(<<"0", ".", "5">>)

\* C6 as claimed: on the fallback path scope_of_work is the first 500
\* characters of the reply followed by "...", each of the other eight
\* sections is "Not specified", extracted_sections is exactly raw_content
\* and confidence_score is 0.5.
C6_FallbackAllNotSpecified ==
    FallbackTaken =>
        /\ FallbackCommon
        /\ Get(given, K_project_overview) = Str(NotSpecified)

\* C6 as amended: the same, except that project_overview holds the fixed
\* notice "AI extraction completed but formatting failed" and the other
\* seven sections are "Not specified".
C6_FallbackRecord ==
    FallbackTaken =>
        /\ FallbackCommon
        /\ Get(given, K_project_overview) = Str(FormattingFailed)

C6_Witness ==
    /\ FallbackTaken
    /\ Len(response_text) > ScopeLimit
    /\ Len(Get(given, K_scope_of_work).v) = ScopeLimit + Len(Ellipsis)

ScenarioRecord == <<Item(K_location, Str(<<"W", "r", "i", "g", "h", "t", "-", "P", "a", "t", "t", "e", "r", "s", "o", "n", " ", "A", "F", "B", ",", " ", "O", "h", "i", "o">>)),
                    Item(K_technical_requirements, Str(<<"C", "o", "n", "t", "a", "c", "t", ":", " ", "r", "f", "q", "@", "a", "g", "e", "n", "c", "y", ".", "g", "o", "v">>))>>

\* C7: the end-to-end scenario: location becomes "[REDACTED], Ohio",
\* technical_requirements becomes "Contact: [REDACTED]", and the summary has
\* exactly two entries, location / specific_locations first and
\* technical_requirements / contact_info second.
C7_Scenario ==
    (pc = "redacted" /\ given = ScenarioRecord) =>
        /\ Get(FirstOut, K_location) = Str(<<"[", "R", "E", "D", "A", "C", "T", "E", "D", "]", ",", " ", "O", "h", "i", "o">>)
        /\ Get(FirstOut, K_technical_requirements) = Str(<<"C", "o", "n", "t", "a", "c", "t", ":", " ", "[", "R", "E", "D", "A", "C", "T", "E", "D", "]">>)
        /\ Len(audit) = 2
        /\ Len(redaction_summary) = 2
        /\ audit[1].section_key = K_location
        /\ audit[1].category = <<"s", "p", "e", "c", "i", "f", "i", "c", "_", "l", "o", "c", "a", "t", "i", "o", "n", "s">>
        /\ audit[2].section_key = K_technical_requirements
        /\ audit[2].category = <<"c", "o", "n", "t", "a", "c", "t", "_", "i", "n", "f", "o">>

\* literals that are instances of a pattern category, with that category
CategoryLiterals == {
    [text |-> <<"D", "O", "D">>, category |-> <<"g", "o", "v", "e", "r", "n", "m", "e", "n", "t", "_", "a", "g", "e", "n", "c", "i", "e", "s">>],
    [text |-> <<"j", "a", "n", "e", "@", "e", "x", "a", "m", "p", "l", "e", ".", "c", "o", "m">>, category |-> <<"c", "o", "n", "t", "a", "c", "t", "_", "i", "n", "f", "o">>],
    [text |-> <<"5", "5", "5", "-", "1", "2", "3", "-", "4", "5", "6", "7">>, category |-> <<"c", "o", "n", "t", "a", "c", "t", "_", "i", "n", "f", "o">>],
    [text |-> <<"h", "t", "t", "p", "s", ":", "/", "/", "e", "x", "a", "m", "p", "l", "e", ".", "c", "o", "m", "/", "x">>, category |-> <<"c", "o", "n", "t", "a", "c", "t", "_", "i", "n", "f", "o">>],
    [text |-> <<"h", "t", "t", "p", "s", ":", "/", "/", "v", "a", ".", "g", "o", "v", "/", "x">>, category |-> <<"c", "o", "n", "t", "a", "c", "t", "_", "i", "n", "f", "o">>],
    [text |-> <<"D", "U", "N", "S", ":", " ", "1", "2", "3", "4", "5", "6", "7", "8", "9">>, category |-> <<"f", "e", "d", "e", "r", "a", "l", "_", "c", "o", "d", "e", "s">>],
    [text |-> <<"D", "U", "N", "S", ":", " ", "1", "2", "3", "4", "5", "6", "7", "8", "9", "0">>, category |-> <<"f", "e", "d", "e", "r", "a", "l", "_", "c", "o", "d", "e", "s">>],
    [text |-> <<"1", "2", "3", " ", "M", "a", "i", "n", " ", "S", "t", "r", "e", "e", "t">>, category |-> <<"s", "p", "e", "c", "i", "f", "i", "c", "_", "l", "o", "c", "a", "t", "i", "o", "n", "s">>],
    [text |-> <<"S", "m", "i", "t", "h", " ", "A", "F", "B">>, category |-> <<"s", "p", "e", "c", "i", "f", "i", "c", "_", "l", "o", "c", "a", "t", "i", "o", "n", "s">>] }

\* C8: a section holding exactly one literal of a category comes back as
\* exactly "[REDACTED]" with exactly one audit entry, tagged with that
\* literal's own category.
C8_LiteralCompleteness ==
    \A l \in CategoryLiterals :
        (pc = "redacted" /\ given = <<Item(K_location, Str(l.text))>>) =>
            /\ Get(FirstOut, K_location) = Str(REDACTED)
            /\ Len(redaction_summary) = 1
            /\ Len(audit) = 1
            /\ audit[1].category = l.category

\* C9: in a record that came from the parser, extracted_sections and
\* confidence_score are never scanned and come back with the value they had,
\* whatever JSON value the reply gave them; and every non-string value is
\* passed through and contributes no audit entry.
C9_MetadataUntouched ==
    (origin = "parser" /\ Finished) =>
        /\ \A k \in {K_extracted_sections, K_confidence_score} :
               HasKey(given, k) =>
                   /\ Get(FirstOut, k) = Get(given, k)
                   /\ \A i \in 1..Len(audit) : audit[i].section_key # k
        /\ \A i \in 1..Len(given) :
               ~IsStr(given[i].val) =>
                   /\ given[i].k = K_redaction_applied \/ FirstOut[i] = given[i]
                   /\ \A j \in 1..Len(audit) : audit[j].si # i

\* the keys among redaction_applied, redaction_timestamp that d lacks
AddedKeys(d) ==
    SelectSeq(<<K_redaction_applied, K_redaction_timestamp>>, LAMBDA k : ~HasKey(d, k))

\* C10: the call leaves the mapping it was given exactly as it was and
\* returns a different object, whose keys are the input's keys in the
\* input's order followed by those of redaction_applied (always true) and
\* redaction_timestamp that the input lacked.
C10_InputUntouched ==
    Finished =>
        /\ heap[extracted] = given
        /\ redacted # extracted
        /\ Len(FirstOut) = Len(given) + Len(AddedKeys(given))
        /\ Keys(FirstOut) = Keys(given) \o AddedKeys(given)
        /\ Get(FirstOut, K_redaction_applied) = PyTrue
        /\ IsStr(Get(FirstOut, K_redaction_timestamp))

C10_Witness ==
    /\ pc = "done"
    /\ Len(audit) >= 1
    /\ HasKey(given, K_redaction_applied)
    /\ \E i \in 1..Len(given) : ~IsStr(given[i].val)

====
